---- MODULE Spec2Model ----
(***************************************************************************)
(* A model of the BBHash bit-array (cpp-bbhash/bitvector.hpp): the atomic   *)
(* 64-bit words, the rank directory, the collision clearing and the binary  *)
(* save/load, together with the level cascade that is built on top of it.   *)
(*                                                                          *)
(* A 64-bit word is represented by the set of the indices of its one bits   *)
(* (a subset of 0..63): AND is intersection, OR is union, AND NOT is set    *)
(* difference.  Numbers that the program stores in 64-bit fields (_size,    *)
(* _nchar, the rank samples) are naturals; the byte stream of save/load is  *)
(* a sequence of 64-bit cells, so numbers are encoded to and decoded from   *)
(* cells where the program writes and reads them.                           *)
(***************************************************************************)
EXTENDS Integers, Sequences, FiniteSets, TLC

VARIABLES
    bv,     \* the bit-array under test (B of the current level)
    cc,     \* the collision bit-array (C of the current level)
    ld,     \* a second bitVector object, the target of load
    os,     \* the byte stream of save / load, as a sequence of 64-bit cells
    saved,  \* history: the bitVector that the stream was saved from
    hist,   \* history: the last operation and what it was applied to
    steps,  \* history: the number of operations so far, where a run is bounded
    thr,    \* the worker threads: program counter and locals of each
    bld     \* the builder: keys, hash family, levels, phase

vars == <<bv, cc, ld, os, saved, hist, steps, thr, bld>>

----------------------------------------------------------------------------
(* Bounds of the model *)

\* the largest array of the general specification has MaxWords 64-bit words
MaxWords == 9
\* how many bits of an array are set at most
MaxBits == 2
\* how many times build_ranks is called on one array
MaxBuilds == 2
\* how many times an array is resized
MaxResizes == 1
\* how many operations a run that saves and loads has
MaxOps == 4
\* how many threads write to an array at once
MaxThreads == 3
\* how many keys a level is filled with
MaxKeys == 3
\* how many workers fill a level
MaxWorkers == 2
\* the level cap of a build
MaxLevels == 2

(* Program constants *)

\* bits of one word: std::atomic<uint64_t>
WordBits == 64
\* _nb_bits_per_rank_sample
_nb_bits_per_rank_sample == 512
\* the byte lanes of the masks of popcount_32
m1 == 85
m2 == 51
m4 == 15

----------------------------------------------------------------------------
(* Arithmetic on bytes and words *)

\* 1 << n, for n in 0..30
Pow2(n) ==
    <<1, 2, 4, 8, 16, 32, 64, 128, 256, 512, 1024, 2048, 4096, 8192, 16384,
      32768, 65536, 131072, 262144, 524288, 1048576, 2097152, 4194304,
      8388608, 16777216, 33554432, 67108864, 134217728, 268435456,
      536870912, 1073741824>>[n + 1]

\* a & b on two bytes
RECURSIVE And8(_, _, _)
And8(a, b, i) ==
    IF i = 8 THEN 0
    ELSE (IF (a \div Pow2(i)) % 2 = 1 /\ (b \div Pow2(i)) % 2 = 1
          THEN Pow2(i) ELSE 0)
         + And8(a, b, i + 1)

\* the number whose one bits are the set S (S within 0..30)
RECURSIVE SumPow(_)
SumPow(S) ==
    IF S = {} THEN 0
    ELSE LET e == CHOOSE e \in S : TRUE IN Pow2(e) + SumPow(S \ {e})

\* the byte at lane j (0..3) of a 32-bit value given by its one bits
ByteOf(x, j) == SumPow({i - 8 * j : i \in {k \in x : k >= 8 * j /\ k < 8 * j + 8}})

\* the three folding steps of popcount_32 on one byte lane.  No step carries
\* or borrows across a byte: each 2-bit field holds at most 2, each nibble at
\* most 4, each byte at most 8, and the masks cut the bit a shift brings in
\* from the next byte.
SwarLane(b) ==
    LET s1 == b - And8(b \div 2, m1, 0)
        s2 == And8(s1, m2, 0) + And8(s1 \div 4, m2, 0)
        s3 == And8(s2 + (s2 \div 16), m4, 0)
    IN s3

SwarTable == [b \in 0..255 |-> SwarLane(b)]

\* (x * h01) >> 24 on 32 bits: the top byte of x + (x<<8) + (x<<16) + (x<<24)
popcount_32(x) ==
    (SwarTable[ByteOf(x, 0)] + SwarTable[ByteOf(x, 1)]
       + SwarTable[ByteOf(x, 2)] + SwarTable[ByteOf(x, 3)]) % 256

popcount_64(x) ==
    LET low  == {i \in x : i < 32}
        high == {i - 32 : i \in {k \in x : k >= 32}}
    IN popcount_32(low) + popcount_32(high)

\* the cell that holds the number n, and the number a cell holds
U64(n) == {i \in 0..30 : (n \div Pow2(i)) % 2 = 1}

Val(c) == SumPow(c)

ZeroWords(k) == [i \in 1..k |-> {}]

----------------------------------------------------------------------------
(* bitVector: word w of the array is _bitArray[w + 1] *)

\* bitVector(): no array, _size 0, _nchar not initialised (u is what it holds)
bitVector0(u) ==
    [_size |-> 0, _nchar |-> u, _bitArray |-> << >>, _ranks |-> << >>]

\* bitVector(uint64_t n)
bitVectorN(n) ==
    [_size |-> n, _nchar |-> 1 + n \div WordBits,
     _bitArray |-> ZeroWords(1 + n \div WordBits), _ranks |-> << >>]

\* resize that rounds the number of words up before adding the extra word
resize_ceil(b, newsize) ==
    [b EXCEPT !._nchar = 1 + (newsize + WordBits - 1) \div WordBits,
              !._bitArray = [i \in 1..(1 + (newsize + WordBits - 1) \div WordBits) |-> {}],
              !._size = newsize]

resize(b, newsize) ==
    [b EXCEPT !._nchar = 1 + newsize \div WordBits,
              !._bitArray = ZeroWords(1 + newsize \div WordBits),
              !._size = newsize]

\* clear(): the whole array
clear(b) == [b EXCEPT !._bitArray = ZeroWords(b._nchar)]

\* clear(start, size)
clearRange(b, start, size) ==
    [b EXCEPT !._bitArray =
        [i \in 1..Len(b._bitArray) |->
            IF i - 1 >= start \div WordBits /\ i - 1 < start \div WordBits + size \div WordBits
            THEN {} ELSE b._bitArray[i]]]

get64(b, cell64) == b._bitArray[cell64 + 1]

\* clearCollisions that leaves the array as it is
clearCollisions_none(b, start, size, c) == b

\* clearCollisions that reads the word of c at the index of the word of b
clearCollisions_abs(b, start, size, c) ==
    LET ids == start \div WordBits
    IN [b EXCEPT !._bitArray =
        [i \in 1..Len(b._bitArray) |->
            IF i - 1 >= ids /\ i - 1 < ids + size \div WordBits
            THEN b._bitArray[i] \ (IF i <= Len(c._bitArray) THEN c._bitArray[i] ELSE {})
            ELSE b._bitArray[i]]]

\* clearCollisions, the part that writes this array
clearCollisions(b, start, size, c) ==
    LET ids == start \div WordBits
    IN [b EXCEPT !._bitArray =
        [i \in 1..Len(b._bitArray) |->
            IF i - 1 >= ids /\ i - 1 < ids + size \div WordBits
            THEN b._bitArray[i] \ get64(c, (i - 1) - ids)
            ELSE b._bitArray[i]]]

\* operator[] and get
\* get that reads every bit as 0
get_zero(b, pos) == 0

get(b, pos) ==
    IF (pos % WordBits) \in b._bitArray[(pos \div WordBits) + 1] THEN 1 ELSE 0

\* set that stores the mask instead of or-ing it into the word
set_store(b, pos) ==
    [b EXCEPT !._bitArray[(pos \div WordBits) + 1] = {pos % WordBits}]

set(b, pos) ==
    [b EXCEPT !._bitArray[(pos \div WordBits) + 1] = @ \cup {pos % WordBits}]

reset(b, pos) ==
    [b EXCEPT !._bitArray[(pos \div WordBits) + 1] = @ \ {pos % WordBits}]

\* word->load of atomic_test_and_set: the word of pos
tas_load(b, pos) == b._bitArray[(pos \div WordBits) + 1]

\* compare_exchange_weak that stores whatever the word holds
cas_store(word, expected, desired, spurious) ==
    [ok |-> TRUE, word |-> desired, expected |-> expected]

\* compare_exchange_weak: the word becomes desired when it holds expected and
\* the exchange does not fail spuriously; otherwise expected becomes the word
compare_exchange_weak(word, expected, desired, spurious) ==
    IF word = expected /\ ~spurious
    THEN [ok |-> TRUE, word |-> desired, expected |-> expected]
    ELSE [ok |-> FALSE, word |-> word, expected |-> word]

\* a turn that sets the bit whatever the word holds and keeps oldval
tas_cas_blind(b, pos, oldval, spurious) ==
    [b |-> [b EXCEPT !._bitArray[(pos \div WordBits) + 1] = @ \cup {pos % WordBits}],
     ok |-> TRUE, oldval |-> oldval]

\* one turn of the loop of atomic_test_and_set with oldval as it stands
tas_cas(b, pos, oldval, spurious) ==
    LET w == (pos \div WordBits) + 1
        r == compare_exchange_weak(b._bitArray[w], oldval,
                                   oldval \cup {pos % WordBits}, spurious)
    IN [b |-> [b EXCEPT !._bitArray[w] = r.word], ok |-> r.ok, oldval |-> r.expected]

\* atomic_test_and_set that reports every bit as new
tas_ret_zero(oldval, pos) == 0

\* the value atomic_test_and_set returns
tas_ret(oldval, pos) == IF (pos % WordBits) \in oldval THEN 1 ELSE 0

\* curent_rank after the words w .. last-1 were added to r
RECURSIVE count_words(_, _, _, _)
count_words(b, w, last, r) ==
    IF w >= last THEN r
    ELSE count_words(b, w + 1, last, r + popcount_64(b._bitArray[w + 1]))

\* the loop of build_ranks from word ii on, one 512-bit block at a time: ii is
\* the first word of a block, where (ii * 64) % 512 = 0 and the sample is
\* pushed, and the words of the block are added before the next block.
\* <<_ranks, curent_rank>> at the end of the loop
WordsPerSample == _nb_bits_per_rank_sample \div WordBits

RECURSIVE build_loop(_, _, _, _)
build_loop(b, ii, curent_rank, ranks) ==
    IF ii >= b._nchar THEN <<ranks, curent_rank>>
    ELSE LET last == IF ii + WordsPerSample < b._nchar
                     THEN ii + WordsPerSample ELSE b._nchar
         IN build_loop(b, last, count_words(b, ii, last, curent_rank),
                       Append(ranks, curent_rank))

\* build_ranks that returns the number of set bits without the offset
build_ranks_count(b, offset) ==
    LET r == build_loop(b, 0, offset, b._ranks)
    IN [b |-> [b EXCEPT !._ranks = r[1]], ret |-> r[2] - offset]

\* build_ranks that starts counting at 0 whatever the offset
build_ranks_nooffset(b, offset) ==
    LET r == build_loop(b, 0, 0, b._ranks)
    IN [b |-> [b EXCEPT !._ranks = r[1]], ret |-> r[2]]

\* build_ranks(offset): the array with its directory, and the value returned
build_ranks(b, offset) ==
    LET r == build_loop(b, 0, offset, b._ranks)
    IN [b |-> [b EXCEPT !._ranks = r[1]], ret |-> r[2]]

\* rank(pos) reads _ranks[block] and the words block*8 .. pos/64
RankInBounds(b, pos) ==
    /\ pos \div _nb_bits_per_rank_sample < Len(b._ranks)
    /\ pos \div WordBits < Len(b._bitArray)

\* rank whose mask of the last word takes the bit at pos too
rank_inclusive(b, pos) ==
    LET word_idx    == pos \div WordBits
        word_offset == pos % WordBits
        block       == pos \div _nb_bits_per_rank_sample
        r           == count_words(b, (block * _nb_bits_per_rank_sample) \div WordBits,
                                 word_idx, b._ranks[block + 1])
        mask        == 0..word_offset
    IN r + popcount_64(b._bitArray[word_idx + 1] \cap mask)

rank(b, pos) ==
    LET word_idx    == pos \div WordBits
        word_offset == pos % WordBits
        block       == pos \div _nb_bits_per_rank_sample
        r           == count_words(b, (block * _nb_bits_per_rank_sample) \div WordBits,
                                 word_idx, b._ranks[block + 1])
        mask        == 0..(word_offset - 1)
    IN r + popcount_64(b._bitArray[word_idx + 1] \cap mask)

\* save(os): the cells written
save(b) ==
    <<U64(b._size), U64(b._nchar)>>
      \o b._bitArray
      \o <<U64(Len(b._ranks))>>
      \o [i \in 1..Len(b._ranks) |-> U64(b._ranks[i])]

\* load(is): the cells load reads from a stream s, and the object afterwards
LoadNeeds(s) ==
    IF Len(s) < 2 THEN 3
    ELSE LET nw == 1 + Val(s[1]) \div WordBits
         IN IF Len(s) < 2 + nw + 1 THEN 2 + nw + 1
            ELSE 2 + nw + 1 + Val(s[2 + nw + 1])

\* load that keeps the samples the object had and adds those of the stream
load_append(b, s) ==
    LET size  == Val(s[1])
        nw    == 1 + size \div WordBits
        sizer == Val(s[2 + nw + 1])
    IN [_size |-> size, _nchar |-> nw,
        _bitArray |-> [i \in 1..nw |-> s[2 + i]],
        _ranks |-> b._ranks \o [i \in 1..sizer |-> Val(s[2 + nw + 1 + i])]]

load(b, s) ==
    LET size  == Val(s[1])
        nchar == Val(s[2])
        b1    == resize([b EXCEPT !._size = size, !._nchar = nchar], size)
        words == [i \in 1..b1._nchar |-> s[2 + i]]
        sizer == Val(s[2 + b1._nchar + 1])
        ranks == [i \in 1..sizer |-> Val(s[2 + b1._nchar + 1 + i])]
    IN [b1 EXCEPT !._bitArray = words, !._ranks = ranks]

----------------------------------------------------------------------------
(* The general specification: one bitVector driven through its interface   *)

Sizes == {0, 64, 100, WordBits * (MaxWords - 1) + 37}

Offsets == {0, 100}

\* what the uninitialised _nchar of bitVector() may hold
Uninit == {0, 5}

\* the positions the operations are tried on: word and block borders, the
\* last bit, and the first bit of the extra word
Positions(b) ==
    {p \in {0, 63, 511, 512, b._size - 1, b._size} :
        p >= 0 /\ p < WordBits * Len(b._bitArray)}

\* all one bits of an array, as positions
Ones(b) ==
    UNION {{WordBits * (w - 1) + i : i \in b._bitArray[w]} : w \in 1..Len(b._bitArray)}

NoVector == bitVector0(0)

\* the history: the last operation (op) and its arguments, how often the
\* array was built, resized and changed, and whether its directory comes from
\* one build_ranks on an empty directory with no change of the bits since
Hist0 ==
    [op |-> "new", n |-> 0, builds |-> 0, resizes |-> 0,
     once |-> FALSE, offset |-> 0, ret |-> 0,
     target |-> "bv", consumed |-> 0, outcome |-> "none",
     preB |-> NoVector, preC |-> NoVector, start |-> 0, len |-> 0]

NoThreads == << >>

InitVector(n, u) ==
    /\ bv = bitVectorN(n)
    /\ cc = bitVectorN(0)
    /\ ld = bitVector0(u)
    /\ os = << >>
    /\ saved = [ok |-> FALSE, b |-> NoVector]
    /\ hist = [Hist0 EXCEPT !.n = n]
    /\ steps = 0
    /\ thr = NoThreads
    /\ bld = << >>

Init == \E n \in Sizes : InitVector(n, 0)

\* the history after an operation: what the operation before it left is gone
After(name) ==
    [hist EXCEPT !.op = name, !.ret = 0, !.target = "bv", !.consumed = 0,
                 !.outcome = "none", !.preB = NoVector, !.preC = NoVector,
                 !.start = 0, !.len = 0]

\* the history after an operation on bv that may change its bits
Touched(name) ==
    LET same == bv'._bitArray = bv._bitArray
    IN [After(name) EXCEPT !.once = @ /\ same,
                           !.offset = IF hist.once /\ same THEN @ ELSE 0]

Resize(n) ==
    /\ hist.resizes < MaxResizes
    /\ bv' = resize(bv, n)
    /\ hist' = [Touched("resize") EXCEPT !.n = n, !.resizes = @ + 1, !.once = FALSE]
    /\ UNCHANGED <<cc, ld, os, saved, thr, bld>>

Set(pos) ==
    /\ Cardinality(Ones(bv)) < MaxBits
    /\ bv' = set(bv, pos)
    /\ hist' = Touched("set")
    /\ UNCHANGED <<cc, ld, os, saved, thr, bld>>

Reset(pos) ==
    /\ bv' = reset(bv, pos)
    /\ hist' = Touched("reset")
    /\ UNCHANGED <<cc, ld, os, saved, thr, bld>>

Clear ==
    /\ bv' = clear(bv)
    /\ hist' = Touched("clear")
    /\ UNCHANGED <<cc, ld, os, saved, thr, bld>>

ClearRange(start, size) ==
    /\ start \div WordBits + size \div WordBits <= Len(bv._bitArray)
    /\ bv' = clearRange(bv, start, size)
    /\ hist' = Touched("clearRange")
    /\ UNCHANGED <<cc, ld, os, saved, thr, bld>>

BuildRanks(offset) ==
    /\ hist.builds < MaxBuilds
    /\ bv' = build_ranks(bv, offset).b
    /\ hist' = [After("build_ranks") EXCEPT !.builds = @ + 1,
                            !.once = (bv._ranks = << >>),
                            !.offset = offset, !.ret = build_ranks(bv, offset).ret]
    /\ UNCHANGED <<cc, ld, os, saved, thr, bld>>

\* the general specification does not bound the number of operations
Keep == UNCHANGED steps

Next ==
    \/ \E n \in Sizes \ {0} : Keep /\ Resize(n)
    \/ \E pos \in Positions(bv) : Keep /\ Set(pos)
    \/ \E pos \in Positions(bv) : Keep /\ Reset(pos)
    \/ Keep /\ Clear
    \/ \E start \in {0, 64}, size \in {64, 128} : Keep /\ ClearRange(start, size)
    \/ \E offset \in Offsets : Keep /\ BuildRanks(offset)

Spec == Init /\ [][Next]_vars

----------------------------------------------------------------------------
(* The specification of save and load: the array is changed, saved to a    *)
(* stream and loaded back, into itself or into a second object            *)

SizesIO == {0, 100, WordBits * (MaxWords - 1) + 37}

InitIO == \E n \in SizesIO, u \in Uninit : InitVector(n, u)

Save ==
    /\ os' = save(bv)
    /\ saved' = [ok |-> TRUE, b |-> bv]
    /\ hist' = After("save")
    /\ UNCHANGED <<bv, cc, ld, thr, bld>>

\* a stream that did not come from save: a header of size and nchar, nchar
\* zero words, a directory of rl samples
Crafted(size, nchar, rl) ==
    <<U64(size), U64(nchar)>> \o ZeroWords(nchar)
      \o <<U64(rl)>> \o [i \in 1..rl |-> U64(7)]

Craft ==
    /\ \E h \in {<<0, 1, 0>>, <<0, 2, 0>>, <<64, 2, 1>>, <<64, 3, 0>>} :
          os' = Crafted(h[1], h[2], h[3])
    /\ saved' = [ok |-> FALSE, b |-> NoVector]
    /\ hist' = After("craft")
    /\ UNCHANGED <<bv, cc, ld, thr, bld>>

\* load(is) returns nothing and tests nothing: it ends normally whenever the
\* stream holds the cells it reads
Load(target) ==
    /\ Len(os) >= LoadNeeds(os)
    /\ IF target = "bv"
       THEN bv' = load(bv, os) /\ ld' = ld
       ELSE ld' = load(ld, os) /\ bv' = bv
    /\ hist' = [After("load") EXCEPT !.target = target,
                            !.once = IF target = "bv" THEN FALSE ELSE @,
                            !.preB = IF target = "bv" THEN bv ELSE ld,
                            !.consumed = LoadNeeds(os), !.outcome = "ok"]
    /\ UNCHANGED <<cc, os, saved, thr, bld>>

\* one more operation of a bounded run
Tick == steps < MaxOps /\ steps' = steps + 1

NextIO ==
    \/ \E n \in SizesIO : Tick /\ Resize(n)
    \/ \E pos \in Positions(bv) \cap {0, 512} : Tick /\ Set(pos)
    \/ \E offset \in Offsets : Tick /\ BuildRanks(offset)
    \/ Tick /\ Save
    \/ Tick /\ Craft
    \/ \E target \in {"bv", "ld"} : Tick /\ Load(target)

SpecIO == InitIO /\ [][NextIO]_vars

----------------------------------------------------------------------------
(* The specification of clearCollisions: an array B with a directory, a    *)
(* collision array C, bits set in both, and B cleared by C over a range    *)

InitClear ==
    \E nb \in {128, 192}, nc \in {64, 128} :
        /\ bv = bitVectorN(nb)
        /\ cc = bitVectorN(nc)
        /\ ld = NoVector
        /\ os = << >>
        /\ saved = [ok |-> FALSE, b |-> NoVector]
        /\ hist = [Hist0 EXCEPT !.n = nb]
        /\ steps = 0
        /\ thr = NoThreads
        /\ bld = << >>

SetC(pos) ==
    /\ Cardinality(Ones(cc)) < MaxBits
    /\ cc' = set(cc, pos)
    /\ hist' = After("setC")
    /\ UNCHANGED <<bv, ld, os, saved, thr, bld>>

\* the asserts of clearCollisions, and its reads and writes inside the arrays
ClearCollisions(start, size) ==
    /\ start % WordBits = 0
    /\ size % WordBits = 0
    /\ start \div WordBits + size \div WordBits <= Len(bv._bitArray)
    /\ size \div WordBits <= Len(cc._bitArray)
    /\ bv' = clearCollisions(bv, start, size, cc)
    /\ cc' = clear(cc)
    /\ hist' = [Touched("clearCollisions") EXCEPT
                   !.preB = bv, !.preC = cc, !.start = start, !.len = size]
    /\ UNCHANGED <<ld, os, saved, thr, bld>>

NextClear ==
    \/ \E pos \in {0, 1, 64, 65, 130} : Keep /\ Set(pos)
    \/ \E pos \in {0, 1, 64} : Keep /\ SetC(pos)
    \/ Keep /\ BuildRanks(100)
    \/ \E start \in {0, 64, 128}, size \in {0, 64, 128} : Keep /\ ClearCollisions(start, size)

SpecClear == InitClear /\ [][NextClear]_vars

----------------------------------------------------------------------------
(* The specification of the rank probe: a 10000-bit array, the six bits of  *)
(* the probe set in any order, its directory built, ranks asked            *)

ProbeBits == {0, 63, 64, 511, 512, 9999}

ProbePositions == {0, 64, 513, 10000}

InitProbe == InitVector(10000, 0)

SetProbe(pos) ==
    /\ pos \notin Ones(bv)
    /\ bv' = set(bv, pos)
    /\ hist' = Touched("set")
    /\ UNCHANGED <<cc, ld, os, saved, thr, bld>>

BuildProbe ==
    /\ hist.builds = 0
    /\ BuildRanks(100)

\* rank(pos) on a built array: the value returned is kept in the history
RankProbe(pos) ==
    /\ hist.once
    /\ RankInBounds(bv, pos)
    /\ hist' = [After("rank") EXCEPT !.n = pos, !.ret = rank(bv, pos)]
    /\ UNCHANGED <<bv, cc, ld, os, saved, thr, bld>>

NextProbe ==
    \/ \E pos \in ProbeBits : Keep /\ SetProbe(pos)
    \/ Keep /\ BuildProbe
    \/ \E pos \in ProbePositions : Keep /\ RankProbe(pos)

SpecProbe == InitProbe /\ [][NextProbe]_vars

----------------------------------------------------------------------------
(* The specification of the concurrent writers: up to MaxThreads threads,   *)
(* each calling atomic_test_and_set or set once on a position of word 0,    *)
(* their loads and exchanges interleaved                                    *)

TasPositions == {3, 5}

InitialBits == {{}, {3}, {7}, {3, 7}}

Calls == <<[op |-> "tas", pos |-> 3], [op |-> "tas", pos |-> 5],
           [op |-> "set", pos |-> 3], [op |-> "set", pos |-> 5]>>

Thread0(c) ==
    [op |-> c.op, pos |-> c.pos, pc |-> "load", oldval |-> {}, ret |-> 0,
     retried |-> FALSE]

InitTAS ==
    \E W \in 1..MaxThreads, ones \in InitialBits :
      \E f \in [1..W -> 1..Len(Calls)] :
        /\ \A t \in 1..(W - 1) : f[t] <= f[t + 1]
        /\ bv = [bitVectorN(64) EXCEPT !._bitArray[1] = ones]
        /\ cc = bitVectorN(0)
        /\ ld = NoVector
        /\ os = << >>
        /\ saved = [ok |-> FALSE, b |-> NoVector]
        /\ hist = [Hist0 EXCEPT !.n = 64, !.preB = bv]
        /\ steps = 0
        /\ thr = [t \in 1..W |-> Thread0(Calls[f[t]])]
        /\ bld = << >>

\* atomic_test_and_set, its load
TasLoad(t) ==
    /\ thr[t].op = "tas" /\ thr[t].pc = "load"
    /\ thr' = [thr EXCEPT ![t].oldval = tas_load(bv, thr[t].pos), ![t].pc = "cas"]
    /\ UNCHANGED <<bv, cc, ld, os, saved, hist, bld>>

\* atomic_test_and_set, one compare_exchange_weak of its loop and, when it
\* succeeds, the return
TasCas(t) ==
    /\ thr[t].op = "tas" /\ thr[t].pc = "cas"
    /\ \E spurious \in BOOLEAN :
         LET r == tas_cas(bv, thr[t].pos, thr[t].oldval, spurious)
         IN /\ bv' = r.b
            /\ thr' = IF r.ok
                      THEN [thr EXCEPT ![t].pc = "done",
                                       ![t].ret = tas_ret(r.oldval, thr[t].pos)]
                      ELSE [thr EXCEPT ![t].oldval = r.oldval,
                                       ![t].retried = @ \/ r.oldval # thr[t].oldval]
    /\ UNCHANGED <<cc, ld, os, saved, hist, bld>>

\* set: one fetch_or
SetStep(t) ==
    /\ thr[t].op = "set" /\ thr[t].pc = "load"
    /\ bv' = set(bv, thr[t].pos)
    /\ thr' = [thr EXCEPT ![t].pc = "done"]
    /\ UNCHANGED <<cc, ld, os, saved, hist, bld>>

NextTAS ==
    \/ \E t \in DOMAIN thr : Keep /\ TasLoad(t)
    \/ \E t \in DOMAIN thr : Keep /\ TasCas(t)
    \/ \E t \in DOMAIN thr : Keep /\ SetStep(t)

SpecTAS == InitTAS /\ [][NextTAS]_vars

----------------------------------------------------------------------------
(* The specification of one level's fill: W workers pull the keys of the    *)
(* level in any order; for each key a worker reads C at p, calls            *)
(* atomic_test_and_set on B at p and sets C at p when the bit was set; one  *)
(* thread finalizes when every key is processed                             *)

GammaTenths == {20, 400}

HashValues == {0, 1, 64, 65}

RankOffsets == {0, 100}

Max(a, b) == IF a >= b THEN a ELSE b

round_up_to_64(n) == ((n + WordBits - 1) \div WordBits) * WordBits

\* size_k = max(64, round_up_to_64(ceil(gamma * num_keys_k))), gamma in tenths
level_size(gamma, num_keys) ==
    Max(WordBits, round_up_to_64((gamma * num_keys + 9) \div 10))

\* p = hash64(x, seed_k) mod size_k
position(h, x, size) == h[x] % size

Idle == [Thread0([op |-> "tas", pos |-> 0]) EXCEPT !.pc = "idle"]

\* B_k <- B_k AND NOT C_k, then the rank directory of B_k
finalize(b, c, size, offset) ==
    build_ranks(clearCollisions(b, 0, size, c), offset).b

\* the fill of one worker alone, the keys in the order given, from key i on
RECURSIVE fill_from(_, _, _, _, _, _)
fill_from(b, c, h, size, order, i) ==
    IF i > Len(order) THEN [b |-> b, c |-> c]
    ELSE LET p == position(h, order[i], size)
         IN IF get(c, p) = 1 THEN fill_from(b, c, h, size, order, i + 1)
            ELSE LET r == tas_cas(b, p, tas_load(b, p), FALSE)
                 IN fill_from(r.b,
                              IF tas_ret(r.oldval, p) = 1 THEN set(c, p) ELSE c,
                              h, size, order, i + 1)

\* the level one worker alone builds from the keys in the order given
level_of(h, size, offset, order) ==
    LET f == fill_from(bitVectorN(size), bitVectorN(size), h, size, order, 1)
    IN finalize(f.b, f.c, size, offset)

InitFill ==
    \E N \in 1..MaxKeys, W \in 1..MaxWorkers, gamma \in GammaTenths,
       offset \in RankOffsets :
      \E h \in [1..N -> HashValues] :
        /\ \A k \in 1..(N - 1) : h[k] <= h[k + 1]
        /\ bld = [keys |-> 1..N, h |-> h, size |-> level_size(gamma, N),
                  offset |-> offset, left |-> 1..N, phase |-> "fill"]
        /\ bv = bitVectorN(level_size(gamma, N))
        /\ cc = bitVectorN(level_size(gamma, N))
        /\ ld = NoVector
        /\ os = << >>
        /\ saved = [ok |-> FALSE, b |-> NoVector]
        /\ hist = [Hist0 EXCEPT !.n = level_size(gamma, N)]
        /\ steps = 0
        /\ thr = [w \in 1..W |-> Idle]

\* a worker takes a key and reads C at its position; the relaxed load may
\* miss a bit another worker has set
Check(w) ==
    /\ bld.phase = "fill" /\ thr[w].pc = "idle"
    /\ \E x \in bld.left :
         LET p == position(bld.h, x, bld.size)
         IN \E seen \in {get(cc, p), 0} :
              /\ bld' = [bld EXCEPT !.left = @ \ {x}]
              /\ thr' = IF seen = 1 THEN thr
                        ELSE [thr EXCEPT ![w].pos = p, ![w].pc = "load"]
    /\ UNCHANGED <<bv, cc, ld, os, saved, hist>>

\* the bit was set before: the worker sets C at the position
Mark(w) ==
    /\ bld.phase = "fill" /\ thr[w].pc = "done"
    /\ cc' = IF thr[w].ret = 1 THEN set(cc, thr[w].pos) ELSE cc
    /\ thr' = [thr EXCEPT ![w] = [Idle EXCEPT !.retried = thr[w].retried]]
    /\ UNCHANGED <<bv, ld, os, saved, hist, bld>>

\* the barrier, then one thread finalizes the level
Finalize ==
    /\ bld.phase = "fill" /\ bld.left = {}
    /\ \A w \in DOMAIN thr : thr[w].pc = "idle"
    /\ bv' = finalize(bv, cc, bld.size, bld.offset)
    /\ cc' = clear(cc)
    /\ bld' = [bld EXCEPT !.phase = "final"]
    /\ hist' = [After("finalize") EXCEPT !.preB = bv, !.preC = cc]
    /\ UNCHANGED <<ld, os, saved, thr>>

NextFill ==
    \/ \E w \in DOMAIN thr : Keep /\ Check(w)
    \/ \E w \in DOMAIN thr : Keep /\ bld.phase = "fill" /\ TasLoad(w)
    \/ \E w \in DOMAIN thr : Keep /\ bld.phase = "fill" /\ TasCas(w)
    \/ \E w \in DOMAIN thr : Keep /\ Mark(w)
    \/ Keep /\ Finalize

SpecFill == InitFill /\ [][NextFill]_vars

----------------------------------------------------------------------------
(* The specification of the build: level after level is filled key by key,  *)
(* finalized with the running rank offset, and its residual keys become the *)
(* next level's input; after MaxLevels levels the keys left go to the       *)
(* fallback table; then keys are looked up. The hash of a key at a level is *)
(* drawn when the key reaches the level                                     *)

LevelHashes == {0, 65}

LastHashes == {7, 8}

NoLevel == [keys |-> {}, gamma |-> 0, h |-> << >>, size |-> 0, offset |-> 0,
            input |-> {}, left |-> {}, phase |-> "fill", levels |-> << >>,
            hl |-> << >>, fallback |-> << >>]

\* a level of size_k bits over the keys of input, hashed by h
StartLevel(b, input, h) ==
    /\ bld' = [b EXCEPT !.input = input, !.left = input, !.h = h,
                        !.size = level_size(b.gamma, Cardinality(input)),
                        !.phase = "fill"]
    /\ bv' = bitVectorN(level_size(b.gamma, Cardinality(input)))
    /\ cc' = bitVectorN(level_size(b.gamma, Cardinality(input)))

InitBuild ==
    \E N \in 1..MaxKeys, gamma \in GammaTenths :
      \E h \in [1..N -> LevelHashes] :
        /\ \A k \in 1..(N - 1) : h[k] <= h[k + 1]
        /\ bld = [NoLevel EXCEPT !.keys = 1..N, !.gamma = gamma, !.h = h,
                                 !.size = level_size(gamma, N),
                                 !.input = 1..N, !.left = 1..N]
        /\ bv = bitVectorN(level_size(gamma, N))
        /\ cc = bitVectorN(level_size(gamma, N))
        /\ ld = NoVector
        /\ os = << >>
        /\ saved = [ok |-> FALSE, b |-> NoVector]
        /\ hist = [Hist0 EXCEPT !.n = N]
        /\ steps = 0
        /\ thr = NoThreads

\* the fill phase, one key: steps 1 to 3 of the level fill
FillKey(x) ==
    /\ bld.phase = "fill" /\ x \in bld.left
    /\ LET f == fill_from(bv, cc, bld.h, bld.size, <<x>>, 1)
       IN bv' = f.b /\ cc' = f.c
    /\ bld' = [bld EXCEPT !.left = @ \ {x}]
    /\ hist' = After("fill")
    /\ UNCHANGED <<ld, os, saved, thr>>

\* the finalize phase begun without waiting for the keys still to be filled
FinalizeEarly ==
    /\ bld.phase = "fill"
    /\ LET r == build_ranks(clearCollisions(bv, 0, bld.size, cc), bld.offset)
       IN /\ bv' = r.b
          /\ bld' = [bld EXCEPT !.phase = "residual",
                                !.levels = Append(@, [b |-> r.b, h |-> bld.h,
                                                      size |-> bld.size,
                                                      rank_offset |-> bld.offset]),
                                !.offset = r.ret]
    /\ cc' = clear(cc)
    /\ hist' = [After("finalize") EXCEPT
                   !.offset = bld.offset,
                   !.ret = build_ranks(clearCollisions(bv, 0, bld.size, cc),
                                       bld.offset).ret]
    /\ UNCHANGED <<ld, os, saved, thr>>

\* the finalize phase: B_k AND NOT C_k, C_k zeroed, build_ranks(rank_offset_k),
\* whose return is rank_offset_{k+1}
FinalizeLevel ==
    /\ bld.phase = "fill" /\ bld.left = {}
    /\ LET r == build_ranks(clearCollisions(bv, 0, bld.size, cc), bld.offset)
       IN /\ bv' = r.b
          /\ bld' = [bld EXCEPT !.phase = "residual",
                                !.levels = Append(@, [b |-> r.b, h |-> bld.h,
                                                      size |-> bld.size,
                                                      rank_offset |-> bld.offset]),
                                !.offset = r.ret]
    /\ cc' = clear(cc)
    /\ hist' = [After("finalize") EXCEPT
                   !.offset = bld.offset,
                   !.ret = build_ranks(clearCollisions(bv, 0, bld.size, cc),
                                       bld.offset).ret]
    /\ UNCHANGED <<ld, os, saved, thr>>

\* the keys of the level's input whose final B_k[p] is 0
residual(b, h, size, input) == {x \in input : get(b, position(h, x, size)) = 0}

\* the residual phase with no key left: the build is complete
Complete ==
    /\ bld.phase = "residual"
    /\ residual(bv, bld.h, bld.size, bld.input) = {}
    /\ bld' = [bld EXCEPT !.phase = "done", !.input = {}]
    /\ hist' = After("complete")
    /\ UNCHANGED <<bv, cc, ld, os, saved, thr>>

\* the residual phase below the level cap: the residual is the next input
NextLevel ==
    /\ bld.phase = "residual" /\ Len(bld.levels) < MaxLevels
    /\ LET res == residual(bv, bld.h, bld.size, bld.input)
       IN /\ res # {}
          /\ \E h \in [res -> LevelHashes] : StartLevel(bld, res, h)
    /\ hist' = After("level")
    /\ UNCHANGED <<ld, os, saved, thr>>

\* the residual phase at the level cap: each residual key, in the order of the
\* key source, gets the next index of the rank counter under its hash with the
\* last seed; of two keys with the same hash the table keeps one
Fallback ==
    /\ bld.phase = "residual" /\ Len(bld.levels) >= MaxLevels
    /\ LET res == residual(bv, bld.h, bld.size, bld.input)
           idx == [x \in res |-> bld.offset + Cardinality({y \in res : y < x})]
       IN /\ res # {}
          /\ \E hl \in [res -> LastHashes] :
             \E table \in [{hl[x] : x \in res} -> {idx[x] : x \in res}] :
                /\ \A v \in DOMAIN table : \E x \in res : hl[x] = v /\ table[v] = idx[x]
                /\ bld' = [bld EXCEPT !.phase = "done", !.input = res, !.hl = hl,
                                      !.fallback = table,
                                      !.offset = @ + Cardinality(res)]
    /\ hist' = After("fallback")
    /\ UNCHANGED <<bv, cc, ld, os, saved, thr>>

\* lookup from level k on: the first level whose bit at p is set answers with
\* its rank; past the last level the fallback table answers
RECURSIVE lookup_from(_, _, _)
lookup_from(b, x, k) ==
    IF k > Len(b.levels)
    THEN IF x \in DOMAIN b.hl /\ b.hl[x] \in DOMAIN b.fallback
         THEN b.fallback[b.hl[x]] ELSE -1
    ELSE LET l == b.levels[k]
             p == position(l.h, x, l.size)
         IN IF get(l.b, p) = 1 THEN rank(l.b, p) ELSE lookup_from(b, x, k + 1)

lookup(b, x) == lookup_from(b, x, 1)

Lookup(x) ==
    /\ bld.phase = "done" /\ x \in bld.keys
    /\ hist' = [After("lookup") EXCEPT !.n = x, !.ret = lookup(bld, x)]
    /\ UNCHANGED <<bv, cc, ld, os, saved, thr, bld>>

NextBuild ==
    \/ \E x \in bld.keys : Keep /\ FillKey(x)
    \/ Keep /\ FinalizeLevel
    \/ Keep /\ Complete
    \/ Keep /\ NextLevel
    \/ Keep /\ Fallback
    \/ \E x \in bld.keys : Keep /\ Lookup(x)

SpecBuild == InitBuild /\ [][NextBuild]_vars

\* a step of the builder itself; the build is a bulk job that runs every
\* phase to its end
BuildStep ==
    \/ \E x \in bld.keys : Keep /\ FillKey(x)
    \/ Keep /\ FinalizeLevel
    \/ Keep /\ Complete
    \/ Keep /\ NextLevel
    \/ Keep /\ Fallback

SpecBuildLive == SpecBuild /\ WF_vars(BuildStep)

----------------------------------------------------------------------------
(* Claims about one bitVector *)

CeilDiv(a, b) == (a + b - 1) \div b

\* the number of one bits at positions strictly below p, counted bit by bit
CountBelow(b, p) == Cardinality({q \in Ones(b) : q < p})

\* C3: when build_ranks(offset) was called once, on an array without a
\* directory and after all bits were set, rank(p) is offset plus the number
\* of one bits strictly below p, for every p from 0 to the size
C3_RankCorrect ==
    hist.once =>
        \A p \in 0..bv._size :
            /\ RankInBounds(bv, p)
            /\ rank(bv, p) = hist.offset + CountBelow(bv, p)

\* a built array of two blocks with bits on both sides of the block border
C3_Witness ==
    /\ hist.once
    /\ hist.offset = 100
    /\ bv._size > _nb_bits_per_rank_sample
    /\ {63, 512} \subseteq Ones(bv)

\* C8 as stated: new(n) and resize(n) allocate ceil(n/64)+1 zeroed words, and
\* save writes that count as num_words followed by that many words
C8_CeilPlusOneWords ==
    /\ hist.op \in {"new", "resize"} =>
          /\ Len(bv._bitArray) = CeilDiv(hist.n, WordBits) + 1
          /\ \A w \in 1..Len(bv._bitArray) : bv._bitArray[w] = {}
    /\ hist.op = "save" =>
          /\ Val(os[2]) = CeilDiv(bv._size, WordBits) + 1
          /\ SubSeq(os, 3, 2 + Val(os[2])) = bv._bitArray

\* C8 amended: new(n) and resize(n) allocate floor(n/64)+1 zeroed words, which
\* is ceil(n/64)+1 exactly when n is a multiple of 64, and save writes that
\* count as num_words followed by that many words
C8_FloorPlusOneWords ==
    /\ hist.op \in {"new", "resize"} =>
          /\ bv._size = hist.n
          /\ bv._nchar = hist.n \div WordBits + 1
          /\ Len(bv._bitArray) = bv._nchar
          /\ \A w \in 1..Len(bv._bitArray) : bv._bitArray[w] = {}
          /\ (bv._nchar = CeilDiv(hist.n, WordBits) + 1) <=> (hist.n % WordBits = 0)
    /\ hist.op = "save" =>
          /\ Val(os[1]) = bv._size
          /\ Val(os[2]) = bv._size \div WordBits + 1
          /\ Val(os[2]) = Len(bv._bitArray)
          /\ SubSeq(os, 3, 2 + Val(os[2])) = bv._bitArray
          /\ Len(os) = 2 + Val(os[2]) + 1 + Len(bv._ranks)

\* an array resized to a size that is no multiple of 64, with a bit, saved
C8_Witness ==
    /\ hist.op = "save"
    /\ hist.resizes = 1
    /\ bv._size = 100
    /\ Ones(bv) # {}

\* C2: after save and load, the loaded object has the size, the words and
\* the rank directory of the saved one, so get and rank agree everywhere
C2_RoundTrip ==
    (hist.op = "load" /\ saved.ok) =>
        LET t == IF hist.target = "bv" THEN bv ELSE ld
            s == saved.b
        IN /\ t._size = s._size
           /\ t._nchar = s._nchar
           /\ t._bitArray = s._bitArray
           /\ t._ranks = s._ranks
           /\ \A i \in 0..(s._size - 1) : get(t, i) = get(s, i)
           /\ \A p \in 0..s._size :
                 RankInBounds(s, p) => RankInBounds(t, p) /\ rank(t, p) = rank(s, p)

\* a load of an array with a directory into an object that held other bits
C2_Witness ==
    /\ hist.op = "load" /\ saved.ok
    /\ hist.preB._bitArray # << >>
    /\ hist.preB._bitArray # saved.b._bitArray
    /\ saved.b._ranks # << >>

\* the header of a stream: num_words is neither floor(size/64)+1 nor
\* ceil(size/64)+1
HeaderInconsistent(s) ==
    /\ Len(s) >= 2
    /\ Val(s[2]) # Val(s[1]) \div WordBits + 1
    /\ Val(s[2]) # CeilDiv(Val(s[1]), WordBits) + 1

\* C9: a load from a stream whose num_words does not match its size_in_bits
\* ends in FormatMismatch and reads nothing after the header
C9_FormatMismatch ==
    (hist.op = "load" /\ HeaderInconsistent(os)) =>
        /\ hist.outcome = "FormatMismatch"
        /\ hist.consumed = 2

----------------------------------------------------------------------------
(* Claims about clearCollisions and the rank probe *)

\* C10: clearCollisions(start, len, C) with start and len multiples of 64
\* leaves bit q of B set exactly when it was set and, for q in the range,
\* bit q - start of C was not; B's size, word count and directory do not
\* change, and every word of C is zero afterwards
C10_ClearCollisionsFrame ==
    hist.op = "clearCollisions" =>
        /\ \A q \in 0..(WordBits * Len(bv._bitArray) - 1) :
              get(bv, q) =
                 IF q >= hist.start /\ q < hist.start + hist.len
                 THEN (IF get(hist.preB, q) = 1 /\ get(hist.preC, q - hist.start) = 0
                       THEN 1 ELSE 0)
                 ELSE get(hist.preB, q)
        /\ bv._size = hist.preB._size
        /\ bv._nchar = hist.preB._nchar
        /\ Len(bv._bitArray) = Len(hist.preB._bitArray)
        /\ bv._ranks = hist.preB._ranks
        /\ cc._size = hist.preC._size
        /\ Len(cc._bitArray) = Len(hist.preC._bitArray)
        /\ \A w \in 1..Len(cc._bitArray) : cc._bitArray[w] = {}

\* a range that starts at word 1: bit 64 of B goes with bit 0 of C, bit 0 of
\* B stays, and B has a directory
C10_Witness ==
    /\ hist.op = "clearCollisions"
    /\ hist.start = 64 /\ hist.len = 64
    /\ Ones(hist.preB) = {0, 64}
    /\ Ones(hist.preC) = {0}
    /\ Ones(bv) = {0}
    /\ bv._ranks # << >>

ProbeBuilt ==
    /\ bv._size = 10000
    /\ Ones(bv) = ProbeBits
    /\ hist.once /\ hist.offset = 100

\* C7 as stated: the 10000-bit array with bits {0, 63, 64, 511, 512, 9999}
\* and build_ranks(100) has rank(0)=100, rank(64)=102, rank(513)=104 and
\* rank(10000)=106
C7_RankProbeAsStated ==
    ProbeBuilt =>
        /\ rank(bv, 0) = 100
        /\ rank(bv, 64) = 102
        /\ rank(bv, 513) = 104
        /\ rank(bv, 10000) = 106

\* C7 amended: the same array has rank(0)=100, rank(64)=102, rank(513)=105
\* (the five bits 0, 63, 64, 511 and 512 lie below 513) and rank(10000)=106;
\* a call of rank returns these values
C7_RankProbe ==
    ProbeBuilt =>
        /\ rank(bv, 0) = 100
        /\ rank(bv, 64) = 102
        /\ rank(bv, 513) = 105
        /\ rank(bv, 10000) = 106
        /\ (hist.op = "rank" =>
              hist.ret = CASE hist.n = 0 -> 100
                           [] hist.n = 64 -> 102
                           [] hist.n = 513 -> 105
                           [] OTHER -> 106)

\* the probe array, built, asked for rank(513)
C7_Witness ==
    /\ ProbeBuilt
    /\ hist.op = "rank" /\ hist.n = 513 /\ hist.ret = 105

\* the threads all call atomic_test_and_set on one position whose bit was 0
SameTas ==
    /\ thr # << >>
    /\ \A t \in DOMAIN thr : thr[t].op = "tas" /\ thr[t].pos = thr[1].pos
    /\ get(hist.preB, thr[1].pos) = 0

Returned(v) == {t \in DOMAIN thr : thr[t].pc = "done" /\ thr[t].ret = v}

AllDone == \A t \in DOMAIN thr : thr[t].pc = "done"

\* C5: when the threads call atomic_test_and_set on the same position and the
\* bit was 0, in every interleaving at most one call has returned 0, a call
\* returns only with the bit set, and when all have returned exactly one
\* returned 0, the others 1, and the bit is 1
C5_OneFirstSetter ==
    SameTas =>
        /\ Cardinality(Returned(0)) <= 1
        /\ (Returned(0) \cup Returned(1) # {} => get(bv, thr[1].pos) = 1)
        /\ (Returned(1) # {} => Returned(0) # {})
        /\ (AllDone =>
              /\ Cardinality(Returned(0)) = 1
              /\ Cardinality(Returned(1)) = Len(thr) - 1
              /\ get(bv, thr[1].pos) = 1)

\* three threads raced on one position, one of them had to repeat its exchange
C5_Witness ==
    /\ SameTas /\ AllDone
    /\ Len(thr) >= 3
    /\ \E t \in DOMAIN thr : thr[t].retried /\ thr[t].ret = 1

KeysAt(p) == {x \in bld.keys : position(bld.h, x, bld.size) = p}

\* C4: after the workers processed the keys of the level in any interleaving
\* and the level is finalized, a bit p of B is set if and only if exactly one
\* key of the level hashes to p, and C is all zero
C4_CollisionFinalization ==
    bld.phase = "final" =>
        /\ \A p \in 0..(bld.size - 1) :
              (get(bv, p) = 1) <=> (Cardinality(KeysAt(p)) = 1)
        /\ Ones(bv) \subseteq 0..(bld.size - 1)
        /\ Ones(cc) = {}

\* two workers finalized a level where one position has one key and another
\* has several, the collision array marking it
C4_Witness ==
    /\ bld.phase = "final"
    /\ Len(thr) >= 2
    /\ \E p \in 0..(bld.size - 1) : Cardinality(KeysAt(p)) = 1
    /\ \E p \in Ones(hist.preC) : Cardinality(KeysAt(p)) >= 2

Orders(S) ==
    {o \in [1..Cardinality(S) -> S] : \A i, j \in DOMAIN o : i # j => o[i] # o[j]}

\* C6: the finalized level that W workers produce under any interleaving is
\* the level a single worker produces from the same keys taken in any order
C6_ParallelEquivalence ==
    bld.phase = "final" =>
        \A o \in Orders(bld.keys) :
            bv = level_of(bld.h, bld.size, bld.offset, o)

\* two workers finalized a level with a collision, one of them having lost an
\* exchange to the other
C6_Witness ==
    /\ bld.phase = "final"
    /\ Len(thr) >= 2
    /\ \E w \in DOMAIN thr : thr[w].retried
    /\ Ones(hist.preC) # {}
    /\ Ones(bv) # {}

Lookups == {lookup(bld, x) : x \in bld.keys}

\* the keys of the fallback table
FallbackKeys == IF bld.phase = "done" THEN DOMAIN bld.hl ELSE {}

RECURSIVE PopcountUpTo(_)
PopcountUpTo(k) ==
    IF k = 0 THEN 0
    ELSE PopcountUpTo(k - 1) + Cardinality(Ones(bld.levels[k].b))

RanksOf(l) == {rank(l.b, p) : p \in Ones(l.b)}

\* C11: build_ranks(offset) returns offset plus the number of set bits of the
\* whole array; in the build, where each level is built with the value the
\* level before returned (0 for the first), the rank_offset of a level is the
\* number of set bits of the levels before it, the ranks of its set positions
\* are exactly the integers from its rank_offset up to the next rank_offset
\* minus one, and the ranges of different levels are disjoint
C11_RankOffsetChain ==
    /\ (hist.op = "finalize" =>
          /\ hist.ret = hist.offset + Cardinality(Ones(bv))
          /\ bld.offset = hist.ret)
    /\ \A k \in 1..Len(bld.levels) :
          LET l == bld.levels[k]
          IN /\ l.rank_offset = PopcountUpTo(k - 1)
             /\ RanksOf(l) = l.rank_offset..(PopcountUpTo(k) - 1)
             /\ Cardinality(RanksOf(l)) = Cardinality(Ones(l.b))
             /\ \A j \in 1..(k - 1) : RanksOf(bld.levels[j]) \cap RanksOf(l) = {}

\* the second level was just built with the offset the first one returned,
\* both levels holding keys
C11_Witness ==
    /\ hist.op = "finalize"
    /\ Len(bld.levels) = 2
    /\ Ones(bld.levels[1].b) # {}
    /\ Cardinality(Ones(bld.levels[2].b)) = 2
    /\ hist.offset = 1 /\ hist.ret = 3

\* C12: whenever build_ranks(offset) has returned, also on an array built
\* before or resized after an earlier build, the rank directory holds exactly
\* one sample per 512-bit block of the allocated words, and the sample at index
\* b is offset plus the number of set bits in the words 0 .. 8b-1
C12_DirectorySamples ==
    hist.op = "build_ranks" =>
        /\ Len(bv._ranks) = CeilDiv(bv._nchar, WordsPerSample)
        /\ \A b \in 0..(Len(bv._ranks) - 1) :
              bv._ranks[b + 1] =
                  hist.offset + CountBelow(bv, b * _nb_bits_per_rank_sample)

\* key x was an input of level k and its position is a set bit of the level
PlacedAt(x, k) ==
    LET l == bld.levels[k]
    IN x \in DOMAIN l.h /\ position(l.h, x, l.size) \in Ones(l.b)

\* the hash of key x under the last seed has an entry in the fallback table
InFallback(x) == x \in DOMAIN bld.hl /\ bld.hl[x] \in DOMAIN bld.fallback

LevelsOf(x) == {k \in 1..Len(bld.levels) : PlacedAt(x, k)}

NoKeyLost ==
    /\ Len(bld.levels) <= MaxLevels
    /\ bld.phase = "done" =>
          \A x \in bld.keys :
             /\ Cardinality(LevelsOf(x)) + (IF InFallback(x) THEN 1 ELSE 0) = 1
             /\ \A k \in LevelsOf(x) : \A j \in 1..(k - 1) :
                   LET l == bld.levels[j]
                   IN x \in DOMAIN l.h /\ position(l.h, x, l.size) \notin Ones(l.b)

\* C13: for every key set and hash family, also one where all keys collide at
\* level 0, the build terminates after at most MaxLevels levels, and at its end
\* every key is placed in exactly one level, at a surviving set bit of that
\* level and of no earlier level, or is in the fallback table: no key is lost
\* or placed twice
C13_TerminatesNoKeyLost == []NoKeyLost /\ <>(bld.phase = "done")

\* all three keys collided at level 0, one was placed at the last level and
\* the two others went to the fallback table
C13_Witness ==
    /\ bld.phase = "done" /\ hist.op = "fallback"
    /\ Cardinality(bld.keys) = 3
    /\ Ones(bld.levels[1].b) = {}
    /\ \E x \in bld.keys : LevelsOf(x) = {MaxLevels}
    /\ Cardinality({x \in bld.keys : InFallback(x)}) = 2

Targets == {thr[t].pos : t \in DOMAIN thr}

Finished == {thr[t].pos : t \in {u \in DOMAIN thr : thr[u].pc = "done"}}

\* C14: when threads concurrently call set and atomic_test_and_set on
\* positions of one word, in every interleaving no bit is lost and no bit
\* other than the targeted ones changes, the bit of every call that returned
\* is 1, after all calls every targeted bit is 1, and an atomic_test_and_set
\* on a position of no other call returns the bit's value from before the calls
C14_NoLostUpdate ==
    thr # << >> =>
        /\ Ones(hist.preB) \subseteq Ones(bv)
        /\ Ones(bv) \subseteq Ones(hist.preB) \cup Targets
        /\ Finished \subseteq Ones(bv)
        /\ (AllDone => Ones(bv) = Ones(hist.preB) \cup Targets)
        /\ \A t \in DOMAIN thr :
              (/\ thr[t].op = "tas" /\ thr[t].pc = "done"
               /\ \A u \in DOMAIN thr \ {t} : thr[u].pos # thr[t].pos) =>
                  thr[t].ret = get(hist.preB, thr[t].pos)

\* an atomic_test_and_set alone on its position lost an exchange to a set of
\* another bit of the word, which held a third bit, and all calls returned
C14_Witness ==
    /\ thr # << >> /\ AllDone
    /\ 7 \in Ones(hist.preB)
    /\ \E t, u \in DOMAIN thr :
          /\ thr[t].op = "tas" /\ thr[t].retried /\ thr[t].ret = 0
          /\ \A v \in DOMAIN thr \ {t} : thr[v].pos # thr[t].pos
          /\ thr[u].op = "set"

Built(b) == b._ranks # << >>

====
